---- MODULE Spec2Model ----
(***************************************************************************)
(* Model of OAEITTL2SSSOM.py: the Alignment-API -> SSSOM converter.        *)
(*                                                                         *)
(* Strings are sequences of one-character strings, so that local_name,     *)
(* str.endswith, float() and f-string concatenation are computed and not   *)
(* assumed.  RDF terms are records [k, s, v]: k is "U" (URIRef), "L"       *)
(* (plain Literal), "D" (xsd:double Literal, value v in thousandths) or    *)
(* "N" (Python None); s is the term's string.                              *)
(***************************************************************************)
EXTENDS Integers, Sequences, FiniteSets

\* ------------------------------------------------------------------ bounds
MaxFiles == 2       \* *.ttl files in the input directory
MaxAlns == 2        \* Alignment resources in one input file
MaxCells == 2       \* Cell resources in one input file
MaxTriples == 3     \* triples of a graph handed to discovery on its own

\* ----------------------------------------------------------------- strings
DigitChars == <<"0", "1", "2", "3", "4", "5", "6", "7", "8", "9">>

IsDigit(c) == \E i \in 1..10 : DigitChars[i] = c

DigitVal(c) == (CHOOSE i \in 1..10 : DigitChars[i] = c) - 1

RECURSIVE Digits(_)
\* str(n) for a natural number n
Digits(n) == IF n < 10 THEN <<DigitChars[n + 1]>>
             ELSE Digits(n \div 10) \o <<DigitChars[(n % 10) + 1]>>

RECURSIVE DecVal(_)
\* value of a string of decimal digits ("" is 0)
DecVal(ds) == IF ds = <<>> THEN 0
              ELSE DecVal(SubSeq(ds, 1, Len(ds) - 1)) * 10 + DigitVal(ds[Len(ds)])

Contains(s, c) == \E i \in 1..Len(s) : s[i] = c

LastIndex(s, c) == IF Contains(s, c)
                   THEN CHOOSE i \in 1..Len(s) : s[i] = c /\ \A j \in (i + 1)..Len(s) : s[j] # c
                   ELSE 0

\* s.rsplit(c, 1)[-1]
AfterLast(s, c) == SubSeq(s, LastIndex(s, c) + 1, Len(s))

RECURSIVE RStrip(_, _)
\* s.rstrip(c)
RStrip(s, c) == IF s # <<>> /\ s[Len(s)] = c THEN RStrip(SubSeq(s, 1, Len(s) - 1), c) ELSE s

\* s.endswith(suf)
EndsWith(s, suf) == /\ Len(suf) <= Len(s)
                    /\ SubSeq(s, Len(s) - Len(suf) + 1, Len(s)) = suf

\* ------------------------------------------------------------------- terms
None == [k |-> "N", s |-> <<>>, v |-> 0]

URIRef(str) == [k |-> "U", s |-> str, v |-> 0]

Literal(str) == [k |-> "L", s |-> str, v |-> 0]

\* Literal(conf_val, datatype=XSD.double); v is the float in thousandths
DoubleLiteral(val) == [k |-> "D", s |-> <<>>, v |-> val]

\* Python truth value of a term: None is false, a string-valued term is
\* true unless its string is empty
Truthy(t) == t.k # "N" /\ t.s # <<>>

RDF_type == URIRef(<<"r", "#", "t", "y", "p", "e">>)
OWL_Ontology == URIRef(<<"owl:Ontology">>)
SSSOM_MappingSet == URIRef(<<"sssom:MappingSet">>)
SSSOM_Mapping == URIRef(<<"sssom:Mapping">>)
SSSOM_record_id == URIRef(<<"sssom:record_id">>)
SSSOM_subject_id == URIRef(<<"sssom:subject_id">>)
SSSOM_predicate_id == URIRef(<<"sssom:predicate_id">>)
SSSOM_object_id == URIRef(<<"sssom:object_id">>)
SSSOM_confidence == URIRef(<<"sssom:confidence">>)
SSSOM_mapping_justification == URIRef(<<"sssom:mapping_justification">>)
SSSOM_subject_source == URIRef(<<"sssom:subject_source">>)
SSSOM_object_source == URIRef(<<"sssom:object_source">>)
SSSOM_mappings == URIRef(<<"sssom:mappings">>)
SKOS_exactMatch == URIRef(<<"skos:exactMatch">>)
SKOS_relatedMatch == URIRef(<<"skos:relatedMatch">>)
SEMAPV_UnspecifiedMatching == URIRef(<<"semapv:UnspecifiedMatching">>)

\* --------------------------------------------------------- graph (rdflib)
\* An input graph is the sequence of its (distinct) triples in the store's
\* iteration order; an output graph is a set of triples.
GraphSet(g) == {g[i] : i \in 1..Len(g)}

\* g.objects(s, p)
Objects(g, s, p) == {g[i][3] : i \in {j \in 1..Len(g) : g[j][1] = s /\ g[j][2] = p}}

\* g.value(s, p): the first object in iteration order, None if there is none
Value(g, s, p) ==
    LET hits == {j \in 1..Len(g) : g[j][1] = s /\ g[j][2] = p}
    IN IF hits = {} THEN None
       ELSE g[CHOOSE j \in hits : \A h \in hits : j <= h][3]

\* set(s for s, _, _ in g.triples((None, p, o)))
Subjects(g, p, o) == {g[i][1] : i \in {j \in 1..Len(g) : g[j][2] = p /\ g[j][3] = o}}

\* ---------------------------------------------------------------- suffixes
S_onto1 == <<"o", "n", "t", "o", "1">>
S_onto2 == <<"o", "n", "t", "o", "2">>
S_map == <<"m", "a", "p">>
S_entity1 == <<"e", "n", "t", "i", "t", "y", "1">>
S_entity2 == <<"e", "n", "t", "i", "t", "y", "2">>
S_measure == <<"m", "e", "a", "s", "u", "r", "e">>
S_relation == <<"r", "e", "l", "a", "t", "i", "o", "n">>
S_cid == <<"c", "i", "d">>
S_Alignment == <<"A", "l", "i", "g", "n", "m", "e", "n", "t">>
S_Cell == <<"C", "e", "l", "l">>

PredRoles == {"onto1", "onto2", "map", "entity1", "entity2", "measure", "relation", "cid"}

ClassRoles == {"Alignment", "Cell"}

Roles == PredRoles \cup ClassRoles

Suffix(role) ==
    CASE role = "onto1" -> S_onto1
      [] role = "onto2" -> S_onto2
      [] role = "map" -> S_map
      [] role = "entity1" -> S_entity1
      [] role = "entity2" -> S_entity2
      [] role = "measure" -> S_measure
      [] role = "relation" -> S_relation
      [] role = "cid" -> S_cid
      [] role = "Alignment" -> S_Alignment
      [] role = "Cell" -> S_Cell

\* --------------------------------------------------------------- discovery
local_name(uri) ==
    IF Contains(uri.s, "#") THEN AfterLast(uri.s, "#")
    ELSE AfterLast(RStrip(uri.s, "/"), "/")

\* the if/elif chain over the predicate's local name
PredRoleOf(lname) ==
    IF EndsWith(lname, S_onto1) THEN "onto1"
    ELSE IF EndsWith(lname, S_onto2) THEN "onto2"
    ELSE IF EndsWith(lname, S_map) THEN "map"
    ELSE IF EndsWith(lname, S_entity1) THEN "entity1"
    ELSE IF EndsWith(lname, S_entity2) THEN "entity2"
    ELSE IF EndsWith(lname, S_measure) THEN "measure"
    ELSE IF EndsWith(lname, S_relation) THEN "relation"
    ELSE IF EndsWith(lname, S_cid) THEN "cid"
    ELSE "none"

\* variant: the isinstance(o, URIRef) test is left out
ClassRoleOf_AnyObject(t) ==
    IF t[2] = RDF_type
    THEN IF EndsWith(local_name(t[3]), S_Alignment) THEN "Alignment"
         ELSE IF EndsWith(local_name(t[3]), S_Cell) THEN "Cell"
         ELSE "none"
    ELSE "none"

\* the if/elif over the local name of an rdf:type object
ClassRoleOf(t) ==
    IF t[2] = RDF_type /\ t[3].k = "U"
    THEN IF EndsWith(local_name(t[3]), S_Alignment) THEN "Alignment"
         ELSE IF EndsWith(local_name(t[3]), S_Cell) THEN "Cell"
         ELSE "none"
    ELSE "none"

\* one iteration of the loop over g.triples((None, None, None))
ScanTriple(acc, t) ==
    LET pr == PredRoleOf(local_name(t[2]))
        a1 == IF pr # "none" THEN [acc EXCEPT ![pr] = t[2]] ELSE acc
        cr == ClassRoleOf(t)
    IN IF cr # "none" THEN [a1 EXCEPT ![cr] = t[3]] ELSE a1

NoPreds == [r \in Roles |-> None]

RECURSIVE ScanFrom(_, _, _)
ScanFrom(g, i, acc) == IF i > Len(g) THEN acc ELSE ScanFrom(g, i + 1, ScanTriple(acc, g[i]))

find_predicates_and_classes(g) == ScanFrom(g, 1, NoPreds)

\* -------------------------------------------------------------- conversion
required_keys == <<"onto1", "onto2", "map", "entity1", "entity2", "measure", "relation", "Alignment">>

\* variant: "measure" is left out of required_keys
Missing_NoMeasure(p) == SelectSeq(required_keys, LAMBDA k : p[k] = None /\ k # "measure")

\* missing = [k for k in required_keys if preds.get(k) is None]
Missing(p) == SelectSeq(required_keys, LAMBDA k : p[k] = None)

\* in_path.stem of the idx-th file of the sorted directory listing
Stem(i) == <<"f">> \o Digits(i)

mapping_set_iri(i) == URIRef(<<"http://example.org/mappings/">> \o Stem(i))

\* variant: only a Literal cid is used
CidStr_LiteralOnly(cid_val) == IF cid_val.k = "L" THEN cid_val.s ELSE <<>>

\* str(cid_val) if isinstance(cid_val, Literal) else (cid_val and str(cid_val)) or ""
CidStr(cid_val) ==
    IF cid_val.k = "L" THEN cid_val.s
    ELSE IF Truthy(cid_val) THEN cid_val.s
    ELSE <<>>

\* the mapping IRI: <set>#m<cid>, or <set>#m<abs(hash((subj, obj)))>
MappingNode(ms, cid_str, h) ==
    IF cid_str # <<>> THEN URIRef(ms.s \o <<"#", "m">> \o cid_str)
    ELSE URIRef(ms.s \o <<"#", "m">> \o Digits(h))

\* variant: the isinstance(rel, Literal) test is left out
PredUri_AnyEquals(rel) ==
    IF rel.s = <<"=">> THEN SKOS_exactMatch ELSE SKOS_relatedMatch

\* "=" -> skos:exactMatch, anything else -> skos:relatedMatch
PredUri(rel) ==
    IF rel.k = "L" /\ rel.s = <<"=">> THEN SKOS_exactMatch ELSE SKOS_relatedMatch

\* float(str): decimal numerals [sign] digits [. digits] with at least one
\* digit (the inputs used here have no whitespace, underscore or exponent,
\* and at most three fractional digits); ok = FALSE is ValueError
ParseFloat(str) ==
    LET signed == str # <<>> /\ str[1] \in {"+", "-"}
        body == IF signed THEN Tail(str) ELSE str
        dots == {i \in 1..Len(body) : body[i] = "."}
        d == IF dots = {} THEN Len(body) + 1 ELSE CHOOSE i \in dots : TRUE
        ip == SubSeq(body, 1, d - 1)
        fp == SubSeq(body, d + 1, Len(body))
        ok == /\ Cardinality(dots) <= 1
              /\ \A i \in 1..Len(body) : i \in dots \/ IsDigit(body[i])
              /\ Len(ip) + Len(fp) >= 1
        fp3 == SubSeq(fp \o <<"0", "0", "0">>, 1, 3)
        mag == DecVal(ip) * 1000 + DecVal(fp3)
    IN IF ok THEN [ok |-> TRUE, v |-> IF signed /\ str[1] = "-" THEN 0 - mag ELSE mag]
       ELSE [ok |-> FALSE, v |-> 0]

\* variant: a ValueError yields confidence 0.0 instead of none
ConfidenceTriples_DefaultZero(node, measure) ==
    IF measure # None
    THEN {<<node, SSSOM_confidence,
            DoubleLiteral(IF ParseFloat(measure.s).ok THEN ParseFloat(measure.s).v ELSE 0)>>}
    ELSE {}

\* measure -> confidence; a ValueError is swallowed
ConfidenceTriples(node, measure) ==
    IF measure # None /\ ParseFloat(measure.s).ok
    THEN {<<node, SSSOM_confidence, DoubleLiteral(ParseFloat(measure.s).v)>>}
    ELSE {}

\* if cid_str: g_out.add((mapping_node, SSSOM.record_id, Literal(cid_str)))
RecordIdTriples(node, cid_str) ==
    IF cid_str # <<>> THEN {<<node, SSSOM_record_id, Literal(cid_str)>>} ELSE {}

\* variant: only a missing entity1 makes the loop skip the cell
CellTriples_ChecksSubjOnly(complete, node, cid_str, subj, obj, rel, measure) ==
    IF subj = None THEN {}
    ELSE {<<node, RDF_type, SSSOM_Mapping>>,
          <<node, SSSOM_subject_id, subj>>,
          <<node, SSSOM_predicate_id, PredUri(rel)>>,
          <<node, SSSOM_object_id, obj>>,
          <<node, SSSOM_mapping_justification, SEMAPV_UnspecifiedMatching>>}
         \cup RecordIdTriples(node, cid_str)
         \cup ConfidenceTriples(node, measure)

\* the triples one iteration of the cell loop adds to g_out
CellTriples(complete, node, cid_str, subj, obj, rel, measure) ==
    IF ~complete THEN {}
    ELSE {<<node, RDF_type, SSSOM_Mapping>>,
          <<node, SSSOM_subject_id, subj>>,
          <<node, SSSOM_predicate_id, PredUri(rel)>>,
          <<node, SSSOM_object_id, obj>>,
          <<node, SSSOM_mapping_justification, SEMAPV_UnspecifiedMatching>>}
         \cup RecordIdTriples(node, cid_str)
         \cup ConfidenceTriples(node, measure)

\* variant: the "source is None" test is left out (the last alignment wins)
SourceUpdate_LastWins(source, s) == IF Truthy(s) THEN s ELSE source

\* if s and source is None: source = s
SourceUpdate(source, s) == IF Truthy(s) /\ source = None THEN s ELSE source

\* the local variables of one iteration of the cell loop
CellLocals(g, p, ms, hf, cell) ==
    LET cid_val == IF p["cid"] # None THEN Value(g, cell, p["cid"]) ELSE None
        subj == Value(g, cell, p["entity1"])
        obj == Value(g, cell, p["entity2"])
        measure == Value(g, cell, p["measure"])
        rel == Value(g, cell, p["relation"])
        complete == ~(subj = None \/ obj = None)
        cid_str == CidStr(cid_val)
        node == IF complete
                THEN MappingNode(ms, cid_str, IF cid_str = <<>> THEN hf[<<subj, obj>>] ELSE 0)
                ELSE None
    IN [cell |-> cell, cid_val |-> cid_val, subj |-> subj, obj |-> obj,
        measure |-> measure, rel |-> rel, complete |-> complete,
        cid_str |-> cid_str, node |-> node,
        emitted |-> CellTriples(complete, node, cid_str, subj, obj, rel, measure)]

NoCell == [cell |-> None, cid_val |-> None, subj |-> None, obj |-> None,
           measure |-> None, rel |-> None, complete |-> FALSE,
           cid_str |-> <<>>, node |-> None, emitted |-> {}]

\* subject_source / object_source, then one sssom:mappings link per
\* distinct mapping node
SetLevelTriples(ms, ss, os, nodes) ==
    (IF ss # None THEN {<<ms, SSSOM_subject_source, ss>>} ELSE {})
    \cup (IF os # None THEN {<<ms, SSSOM_object_source, os>>} ELSE {})
    \cup {<<ms, SSSOM_mappings, nodes[i]>> : i \in 1..Len(nodes)}

\* ------------------------------------------------------------------ inputs
\* The vocabulary of the generated input files: local names that end with
\* the role suffixes; cid lives in a different namespace.
V_onto1 == URIRef(<<"e", ":", "/", "a", "o", "n", "t", "o", "1">>)
V_onto2 == URIRef(<<"e", ":", "/", "a", "o", "n", "t", "o", "2">>)
V_map == URIRef(<<"e", ":", "/", "a", "m", "a", "p">>)
V_entity1 == URIRef(<<"e", ":", "/", "a", "e", "n", "t", "i", "t", "y", "1">>)
V_entity2 == URIRef(<<"e", ":", "/", "a", "e", "n", "t", "i", "t", "y", "2">>)
V_measure == URIRef(<<"e", ":", "/", "a", "m", "e", "a", "s", "u", "r", "e">>)
V_relation == URIRef(<<"e", ":", "/", "a", "r", "e", "l", "a", "t", "i", "o", "n">>)
V_cid == URIRef(<<"f", "#", "c", "i", "d">>)
V_Alignment == URIRef(<<"e", ":", "/", "a", "A", "l", "i", "g", "n", "m", "e", "n", "t">>)
V_Cell == URIRef(<<"e", ":", "/", "a", "C", "e", "l", "l">>)

E_x == URIRef(<<"e", ":", "/", "x">>)
E_x2 == URIRef(<<"e", ":", "/", "x", "2">>)
E_y == URIRef(<<"e", ":", "/", "y">>)
O_1 == URIRef(<<"e", ":", "/", "O", "1">>)
O_2 == URIRef(<<"e", ":", "/", "O", "2">>)
P_1 == URIRef(<<"e", ":", "/", "P", "1">>)
P_2 == URIRef(<<"e", ":", "/", "P", "2">>)

AlnRes(j) == URIRef(<<"e", ":", "/", "A">> \o Digits(j))

CellRes(i) == URIRef(<<"e", ":", "/", "c">> \o Digits(i))

\* kinds of Alignment resource: onto1/onto2 targets (None: no such triple)
AlnKinds == <<[onto1 |-> O_1, onto2 |-> P_1],
              [onto1 |-> O_2, onto2 |-> P_2],
              [onto1 |-> Literal(<<>>), onto2 |-> None]>>

\* kinds of Cell resource (None: no such triple)
CellKinds ==
    <<[cid |-> Literal(<<"1">>), e1 |-> E_x, e2 |-> E_y,
       m |-> Literal(<<"0", ".", "9">>), rel |-> Literal(<<"=">>)],
      [cid |-> Literal(<<"1">>), e1 |-> E_x2, e2 |-> E_y,
       m |-> Literal(<<"a", "b", "c">>), rel |-> Literal(<<"n", "e", "a", "r">>)],
      [cid |-> None, e1 |-> E_x, e2 |-> E_y, m |-> None, rel |-> None],
      [cid |-> Literal(<<>>), e1 |-> E_x2, e2 |-> E_y,
       m |-> Literal(<<"1">>), rel |-> URIRef(<<"=">>)],
      [cid |-> Literal(<<"7">>), e1 |-> E_x, e2 |-> None,
       m |-> Literal(<<".", "5">>), rel |-> Literal(<<"=">>)],
      [cid |-> None, e1 |-> None, e2 |-> E_y,
       m |-> Literal(<<"0", ".", "9">>), rel |-> Literal(<<"=">>)],
      [cid |-> URIRef(<<"e", ":", "/", "k">>), e1 |-> E_x, e2 |-> E_y,
       m |-> Literal(<<"-", "1", ".", "5", "0">>), rel |-> Literal(<<"=">>)]>>

Opt(s, p, o) == IF o = None THEN <<>> ELSE <<<<s, p, o>>>>

AlnTriples(j, kind) ==
    <<<<AlnRes(j), RDF_type, V_Alignment>>>>
    \o Opt(AlnRes(j), V_onto1, AlnKinds[kind].onto1)
    \o Opt(AlnRes(j), V_onto2, AlnKinds[kind].onto2)

\* cell i hangs off alignment ((i - 1) mod nalns) + 1, or off nothing when
\* the file has no Alignment resource
CellInput(i, kind, nalns) ==
    (IF nalns > 0 THEN <<<<AlnRes(((i - 1) % nalns) + 1), V_map, CellRes(i)>>>> ELSE <<>>)
    \o <<<<CellRes(i), RDF_type, V_Cell>>>>
    \o Opt(CellRes(i), V_cid, CellKinds[kind].cid)
    \o Opt(CellRes(i), V_entity1, CellKinds[kind].e1)
    \o Opt(CellRes(i), V_entity2, CellKinds[kind].e2)
    \o Opt(CellRes(i), V_measure, CellKinds[kind].m)
    \o Opt(CellRes(i), V_relation, CellKinds[kind].rel)

RECURSIVE AlnPart(_, _)
AlnPart(alns, j) == IF j > Len(alns) THEN <<>> ELSE AlnTriples(j, alns[j]) \o AlnPart(alns, j + 1)

RECURSIVE CellPart(_, _, _)
CellPart(cells, i, nalns) ==
    IF i > Len(cells) THEN <<>>
    ELSE CellInput(i, cells[i], nalns) \o CellPart(cells, i + 1, nalns)

\* the triples of a syntactically valid input file
FileGraph(alns, cells) == AlnPart(alns, 1) \o CellPart(cells, 1, Len(alns))

\* alignments up to renaming: kinds in non-decreasing order (the loop visits
\* them in any order)
AlnChoices == {a \in UNION {[1..n -> 1..Len(AlnKinds)] : n \in 0..MaxAlns} :
                  \A i \in 1..(Len(a) - 1) : a[i] <= a[i + 1]}

\* cells up to renaming: kinds in non-decreasing order
CellChoices == {c \in UNION {[1..n -> 1..Len(CellKinds)] : n \in 0..MaxCells} :
                   \A i \in 1..(Len(c) - 1) : c[i] <= c[i + 1]}

\* abs(hash((subj, obj))) is specific to the process: any function
EntPairs == {<<E_x, E_y>>, <<E_x2, E_y>>}

HashFns == {[q \in EntPairs |-> IF q[1] = E_x THEN 7 ELSE 12], [q \in EntPairs |-> 7]}

\* ------------------------------------------------------------------- state
VARIABLES
    hashfn,             \* this process's hash of (subj, obj) pairs
    nfiles,             \* number of *.ttl files in the input directory
    idx,                \* main: position in sorted(input_dir.glob("*.ttl"))
    pc,                 \* control point
    result,             \* per file: "pending", "raised", "skipped", "written"
    fs,                 \* per file: how often its out_path has been written
    log,                \* the warning printed by the current call, if any
    g_in,               \* convert_alignment_file: the parsed graph
    preds,              \* the discovered roles
    alnTodo,            \* alignments not yet visited by the outer loop
    alnDone,            \* alignments visited, in order
    cellsTodo,          \* cells of the current alignment not yet visited
    g_out,              \* the output graph
    all_mapping_nodes,  \* the list of mapping nodes
    subj_source,
    obj_source,
    cur                 \* locals of the latest cell iteration

vars == <<hashfn, nfiles, idx, pc, result, fs, log, g_in, preds, alnTodo, alnDone,
          cellsTodo, g_out, all_mapping_nodes, subj_source, obj_source, cur>>

callVars == <<log, g_in, preds, alnTodo, alnDone, cellsTodo, g_out,
              all_mapping_nodes, subj_source, obj_source, cur>>

NoLog == [kind |-> "none", missing |-> <<>>]

\* the locals of a call of convert_alignment_file that has not run yet
Fresh(l, g, p, at, ad, ct, go, amn, ss, os, c) ==
    /\ l = NoLog
    /\ g = <<>>
    /\ p = NoPreds
    /\ at = {}
    /\ ad = <<>>
    /\ ct = {}
    /\ go = {}
    /\ amn = <<>>
    /\ ss = None
    /\ os = None
    /\ c = NoCell

\* the state before main's loop, for a directory of n files
InitDir(n) ==
    /\ hashfn \in HashFns
    /\ nfiles = n
    /\ idx = 1
    /\ pc = "main"
    /\ result = [i \in 1..nfiles |-> "pending"]
    /\ fs = [i \in 1..nfiles |-> 0]
    /\ Fresh(log, g_in, preds, alnTodo, alnDone, cellsTodo, g_out, all_mapping_nodes,
             subj_source, obj_source, cur)

\* a directory that holds one *.ttl file
Init == InitDir(1)

\* a directory that holds up to MaxFiles *.ttl files
InitBatch == \E n \in 1..MaxFiles : InitDir(n)

\* main: the next iteration of the loop over the sorted *.ttl files calls
\* convert_alignment_file with fresh locals
StartCall ==
    /\ pc = "main"
    /\ idx <= nfiles
    /\ pc' = "parse"
    /\ Fresh(log', g_in', preds', alnTodo', alnDone', cellsTodo', g_out',
             all_mapping_nodes', subj_source', obj_source', cur')
    /\ UNCHANGED <<hashfn, nfiles, idx, result, fs>>

\* g_in.parse raises on a file that is not valid Turtle; neither
\* convert_alignment_file nor main catches it
ParseRaises ==
    /\ pc = "parse"
    /\ pc' = "raised"
    /\ result' = [result EXCEPT ![idx] = "raised"]
    /\ UNCHANGED <<hashfn, nfiles, idx, fs>>
    /\ UNCHANGED callVars

\* g_in.parse succeeds; discovery runs on the parsed graph
ParseAndDiscover ==
    /\ pc = "parse"
    /\ \E alns \in AlnChoices, cells \in CellChoices :
          /\ g_in' = FileGraph(alns, cells)
          /\ preds' = find_predicates_and_classes(g_in')
    /\ pc' = "check"
    /\ UNCHANGED <<hashfn, nfiles, idx, result, fs, log, alnTodo, alnDone, cellsTodo,
                   g_out, all_mapping_nodes, subj_source, obj_source, cur>>

\* variant: a skipped file still gets an (empty) output file
CheckRequired_WritesOnSkip ==
    /\ pc = "check"
    /\ LET missing == Missing(preds)
           alignments == Subjects(g_in, RDF_type, preds["Alignment"])
       IN IF missing # <<>> \/ alignments = {}
          THEN /\ log' = [kind |-> IF missing # <<>> THEN "missing" ELSE "noalign",
                          missing |-> missing]
               /\ pc' = "skipped"
               /\ fs' = [fs EXCEPT ![idx] = @ + 1]
               /\ UNCHANGED <<alnTodo, g_out>>
          ELSE /\ g_out' = {<<mapping_set_iri(idx), RDF_type, OWL_Ontology>>,
                            <<mapping_set_iri(idx), RDF_type, SSSOM_MappingSet>>}
               /\ alnTodo' = alignments
               /\ pc' = "loop"
               /\ UNCHANGED <<log, fs>>
    /\ result' = [result EXCEPT ![idx] = IF pc' = "skipped" THEN "skipped" ELSE @]
    /\ UNCHANGED <<hashfn, nfiles, idx, g_in, preds, alnDone, cellsTodo,
                   all_mapping_nodes, subj_source, obj_source, cur>>

\* the required-role check, then the search for Alignment instances and
\* the set-up of the output graph
CheckRequired ==
    /\ pc = "check"
    /\ LET missing == Missing(preds)
           alignments == Subjects(g_in, RDF_type, preds["Alignment"])
       IN IF missing # <<>>
          THEN /\ log' = [kind |-> "missing", missing |-> missing]
               /\ pc' = "skipped"
               /\ UNCHANGED <<alnTodo, g_out>>
          ELSE IF alignments = {}
          THEN /\ log' = [kind |-> "noalign", missing |-> <<>>]
               /\ pc' = "skipped"
               /\ UNCHANGED <<alnTodo, g_out>>
          ELSE /\ g_out' = {<<mapping_set_iri(idx), RDF_type, OWL_Ontology>>,
                            <<mapping_set_iri(idx), RDF_type, SSSOM_MappingSet>>}
               /\ alnTodo' = alignments
               /\ pc' = "loop"
               /\ UNCHANGED log
    /\ result' = [result EXCEPT ![idx] = IF pc' = "skipped" THEN "skipped" ELSE @]
    /\ UNCHANGED <<hashfn, nfiles, idx, fs, g_in, preds, alnDone, cellsTodo,
                   all_mapping_nodes, subj_source, obj_source, cur>>

\* for aln in alignments: read the sources, start the cell loop
NextAlignment ==
    /\ pc = "loop"
    /\ cellsTodo = {}
    /\ \E aln \in alnTodo :
          /\ alnTodo' = alnTodo \ {aln}
          /\ alnDone' = Append(alnDone, aln)
          /\ subj_source' = SourceUpdate(subj_source, Value(g_in, aln, preds["onto1"]))
          /\ obj_source' = SourceUpdate(obj_source, Value(g_in, aln, preds["onto2"]))
          /\ cellsTodo' = Objects(g_in, aln, preds["map"])
    /\ UNCHANGED <<hashfn, nfiles, idx, pc, result, fs, log, g_in, preds, g_out,
                   all_mapping_nodes, cur>>

\* for cell in g_in.objects(aln, map_pred): one iteration
ProcessCell ==
    /\ pc = "loop"
    /\ \E cell \in cellsTodo :
          LET l == CellLocals(g_in, preds, mapping_set_iri(idx), hashfn, cell)
          IN /\ cellsTodo' = cellsTodo \ {cell}
             /\ cur' = l
             /\ g_out' = g_out \cup l.emitted
             /\ all_mapping_nodes' = IF l.complete THEN Append(all_mapping_nodes, l.node)
                                     ELSE all_mapping_nodes
    /\ UNCHANGED <<hashfn, nfiles, idx, pc, result, fs, log, g_in, preds, alnTodo,
                   alnDone, subj_source, obj_source>>

\* after both loops: the set-level triples
Finalize ==
    /\ pc = "loop"
    /\ cellsTodo = {}
    /\ alnTodo = {}
    /\ g_out' = g_out \cup SetLevelTriples(mapping_set_iri(idx), subj_source, obj_source,
                                           all_mapping_nodes)
    /\ pc' = "serialize"
    /\ UNCHANGED <<hashfn, nfiles, idx, result, fs, log, g_in, preds, alnTodo, alnDone,
                   cellsTodo, all_mapping_nodes, subj_source, obj_source, cur>>

\* g_out.serialize(destination=out_path)
Serialize ==
    /\ pc = "serialize"
    /\ fs' = [fs EXCEPT ![idx] = @ + 1]
    /\ result' = [result EXCEPT ![idx] = "written"]
    /\ log' = [kind |-> "ok", missing |-> <<>>]
    /\ pc' = "written"
    /\ UNCHANGED <<hashfn, nfiles, idx, g_in, preds, alnTodo, alnDone, cellsTodo, g_out,
                   all_mapping_nodes, subj_source, obj_source, cur>>

\* convert_alignment_file returns to the loop in main
Return ==
    /\ pc \in {"skipped", "written"}
    /\ idx' = idx + 1
    /\ pc' = "main"
    /\ UNCHANGED <<hashfn, nfiles, result, fs>>
    /\ UNCHANGED callVars

\* the loop in main is exhausted
Finish ==
    /\ pc = "main"
    /\ idx > nfiles
    /\ pc' = "done"
    /\ UNCHANGED <<hashfn, nfiles, idx, result, fs>>
    /\ UNCHANGED callVars

Next ==
    \/ StartCall
    \/ ParseRaises
    \/ ParseAndDiscover
    \/ CheckRequired
    \/ NextAlignment
    \/ ProcessCell
    \/ Finalize
    \/ Serialize
    \/ Return
    \/ Finish

Spec == Init /\ [][Next]_vars

SpecBatch == InitBatch /\ [][Next]_vars

\* ------------------------------------------------- discovery on its own
\* Graphs over a vocabulary with namespaces ending in "/" and "#", trailing
\* slashes, an empty local name, two predicates for one role, and rdf:type
\* objects that are IRIs and literals.
D_s == URIRef(<<"e", ":", "/", "s">>)
D_x == URIRef(<<"e", ":", "/", "x">>)
D_other == URIRef(<<"e", ":", "/", "o", "t", "h", "e", "r">>)
D_AlignmentIri == URIRef(<<"e", ":", "/", "a", "A", "l", "i", "g", "n", "m", "e", "n", "t">>)

DPreds == {URIRef(<<"e", ":", "/", "a", "o", "n", "t", "o", "1">>),
           URIRef(<<"f", "#", "o", "n", "t", "o", "2">>),
           URIRef(<<"e", ":", "/", "m", "a", "p", "/">>),
           URIRef(<<"e", ":", "/", "m", "a", "p", "#">>),
           URIRef(<<"e", "#", "x", "/", "e", "n", "t", "i", "t", "y", "1">>),
           URIRef(<<"e", ":", "/", "e", "n", "t", "i", "t", "y", "2">>),
           URIRef(<<"e", ":", "/", "m", "e", "a", "s", "u", "r", "e">>),
           URIRef(<<"e", ":", "/", "a", "r", "e", "l", "a", "t", "i", "o", "n">>),
           URIRef(<<"f", "#", "r", "e", "l", "a", "t", "i", "o", "n">>),
           URIRef(<<"f", "#", "c", "i", "d">>)}

DTypeObjects == {D_AlignmentIri,
                 URIRef(<<"e", ":", "/", "A", "l", "i", "g", "n", "m", "e", "n", "t", "/">>),
                 URIRef(<<"f", "#", "C", "e", "l", "l">>),
                 Literal(<<"A", "l", "i", "g", "n", "m", "e", "n", "t">>),
                 D_x}

DTriples == {<<D_s, p, D_x>> : p \in DPreds}
            \cup {<<D_s, RDF_type, o>> : o \in DTypeObjects}
            \cup {<<D_s, D_other, D_x>>, <<D_s, D_other, D_AlignmentIri>>}

DGraphs == {g \in UNION {[1..n -> DTriples] : n \in 0..MaxTriples} :
               \A i, j \in 1..Len(g) : i # j => g[i] # g[j]}

InitDiscovery ==
    /\ hashfn = [q \in EntPairs |-> 7]
    /\ nfiles = 1
    /\ idx = 1
    /\ pc = "discover"
    /\ result = [i \in 1..1 |-> "pending"]
    /\ fs = [i \in 1..1 |-> 0]
    /\ g_in \in DGraphs
    /\ Fresh(log, <<>>, preds, alnTodo, alnDone, cellsTodo, g_out, all_mapping_nodes,
             subj_source, obj_source, cur)

\* preds = find_predicates_and_classes(g_in)
Discover ==
    /\ pc = "discover"
    /\ preds' = find_predicates_and_classes(g_in)
    /\ pc' = "discovered"
    /\ UNCHANGED <<hashfn, nfiles, idx, result, fs, log, g_in, alnTodo, alnDone, cellsTodo,
                   g_out, all_mapping_nodes, subj_source, obj_source, cur>>

NextDiscovery == Discover

SpecDiscovery == InitDiscovery /\ [][NextDiscovery]_vars

TypeOK ==
    /\ pc \in {"main", "parse", "raised", "check", "skipped", "loop", "serialize",
               "written", "done", "discover", "discovered"}
    /\ idx \in 1..(nfiles + 1)

\* ------------------------------------------------------------ properties
\* index of the file whose call of convert_alignment_file the locals
\* belong to (0 before the first call)
CallIdx == IF pc \in {"main", "done"} THEN idx - 1 ELSE idx

\* the call has got past the required-role check
PastCheck == CallIdx >= 1 /\ pc \in {"skipped", "loop", "serialize", "written", "main", "done"}

RequiredRoles == {"onto1", "onto2", "map", "entity1", "entity2", "measure", "relation",
                  "Alignment"}

UnresolvedRequired == {r \in RequiredRoles : preds[r] = None}

Range(f) == {f[i] : i \in DOMAIN f}

Count(seq, x) == Cardinality({i \in 1..Len(seq) : seq[i] = x})

\* resources typed sssom:Mapping in a graph
MappingResources(g) == {t[1] : t \in {u \in g : u[2] = RDF_type /\ u[3] = SSSOM_Mapping}}

\* objects of the triples (s, p, _) of an output graph
OutObjects(g, s, p) == {t[3] : t \in {u \in g : u[1] = s /\ u[2] = p}}

\* cells reachable through the map predicate from an Alignment resource
ReachableCells ==
    UNION {Objects(g_in, a, preds["map"]) : a \in Subjects(g_in, RDF_type, preds["Alignment"])}

\* ... that have both entity1 and entity2
CompleteCells ==
    {c \in ReachableCells : /\ Objects(g_in, c, preds["entity1"]) # {}
                            /\ Objects(g_in, c, preds["entity2"]) # {}}

\* C1: when the run of main ends, no file has been left unprocessed because
\* an earlier file failed: every file of the directory was handed to
\* convert_alignment_file, no exception escaped, and every file that was
\* neither malformed nor skipped has its output file.
C1_BatchSurvivesBadFile ==
    pc \in {"done", "raised"} =>
        /\ \A i \in 1..nfiles : result[i] # "pending"
        /\ \A i \in 1..nfiles : result[i] \notin {"raised", "skipped"} => fs[i] = 1

\* C2: once a file is written, its output graph holds exactly as many
\* sssom:Mapping resources as the input has complete cells, and each is
\* linked from the mapping set by sssom:mappings.
C2_OneMappingPerCompleteCell ==
    pc = "written" =>
        /\ Cardinality(MappingResources(g_out)) = Cardinality(CompleteCells)
        /\ \A n \in MappingResources(g_out) :
              <<mapping_set_iri(idx), SSSOM_mappings, n>> \in g_out

\* C3: if discovery left a required role unresolved, the call warns with
\* exactly the unresolved required roles, returns normally (it is skipped,
\* never raised and never in the loops), and the file has no output.
C3_MissingRolesSkip ==
    (PastCheck /\ UnresolvedRequired # {}) =>
        /\ pc \in {"skipped", "main", "done"}
        /\ result[CallIdx] = "skipped"
        /\ log.kind = "missing"
        /\ Range(log.missing) = UnresolvedRequired
        /\ Len(log.missing) = Cardinality(UnresolvedRequired)
        /\ fs[CallIdx] = 0
        /\ g_out = {}

C3_Witness ==
    /\ pc = "skipped"
    /\ log.kind = "missing"
    /\ Range(log.missing) = {"measure", "relation"}

\* C4: a cell's Mapping gets exactly one predicate_id; it is skos:exactMatch
\* iff the relation is the literal "=", and skos:relatedMatch otherwise
\* (missing relation and non-literal relation included); a mapping node
\* produced by a single cell has exactly one predicate_id in the output.
C4_PredicateId ==
    /\ cur.complete =>
          LET ps == OutObjects(cur.emitted, cur.node, SSSOM_predicate_id)
          IN /\ Cardinality(ps) = 1
             /\ (SKOS_exactMatch \in ps) <=> (cur.rel = Literal(<<"=">>))
             /\ (SKOS_relatedMatch \in ps) <=> (cur.rel # Literal(<<"=">>))
    /\ \A n \in Range(all_mapping_nodes) :
          Count(all_mapping_nodes, n) = 1 =>
              Cardinality(OutObjects(g_out, n, SSSOM_predicate_id)) = 1

C4_Witness ==
    /\ cur.complete
    /\ cur.rel = URIRef(<<"=">>)
    /\ <<cur.node, SSSOM_predicate_id, SKOS_relatedMatch>> \in g_out

\* C5 as written: a complete cell with a cid value gets <set>#m<cid> and a
\* record_id with that cid; the hash IRI is used only without a cid value.
C5_Original ==
    cur.complete =>
        IF cur.cid_val # None
        THEN /\ cur.node = URIRef(mapping_set_iri(CallIdx).s \o <<"#", "m">> \o cur.cid_val.s)
             /\ <<cur.node, SSSOM_record_id, Literal(cur.cid_val.s)>> \in cur.emitted
        ELSE /\ cur.node = URIRef(mapping_set_iri(CallIdx).s \o <<"#", "m">>
                                  \o Digits(hashfn[<<cur.subj, cur.obj>>]))
             /\ OutObjects(cur.emitted, cur.node, SSSOM_record_id) = {}

\* C5 amended: a complete cell whose cid value has a non-empty string gets
\* <set>#m<cid> and exactly one record_id, that string; a complete cell with
\* no cid value or with an empty cid string gets the hash IRI and no
\* record_id.
C5_Amended ==
    cur.complete =>
        IF cur.cid_val # None /\ cur.cid_val.s # <<>>
        THEN /\ cur.node = URIRef(mapping_set_iri(CallIdx).s \o <<"#", "m">> \o cur.cid_val.s)
             /\ OutObjects(cur.emitted, cur.node, SSSOM_record_id) = {Literal(cur.cid_val.s)}
        ELSE /\ cur.node = URIRef(mapping_set_iri(CallIdx).s \o <<"#", "m">>
                                  \o Digits(hashfn[<<cur.subj, cur.obj>>]))
             /\ OutObjects(cur.emitted, cur.node, SSSOM_record_id) = {}

C5_Witness ==
    /\ cur.complete
    /\ cur.cid_val = Literal(<<>>)
    /\ <<cur.node, RDF_type, SSSOM_Mapping>> \in g_out

\* the measures of the inputs that Python's float() accepts, with their
\* values in thousandths
FloatTable ==
    {<<Literal(<<"0", ".", "9">>), 900>>, <<Literal(<<"1">>), 1000>>,
     <<Literal(<<".", "5">>), 500>>, <<Literal(<<"-", "1", ".", "5", "0">>), 0 - 1500>>}

\* C6: a complete cell always produces type, subject_id, predicate_id,
\* object_id and mapping_justification; with a measure that float() rejects
\* (or no measure) it produces no confidence, with one that float() accepts
\* exactly one confidence, an xsd:double of that value; a node produced by
\* that cell alone then has the same in the output graph; no exception
\* arises after parsing.
C6_Confidence ==
    /\ cur.complete =>
          LET cs == OutObjects(cur.emitted, cur.node, SSSOM_confidence)
              parsed == {e \in FloatTable : e[1] = cur.measure}
          IN /\ <<cur.node, RDF_type, SSSOM_Mapping>> \in cur.emitted
             /\ <<cur.node, SSSOM_subject_id, cur.subj>> \in cur.emitted
             /\ OutObjects(cur.emitted, cur.node, SSSOM_predicate_id) # {}
             /\ <<cur.node, SSSOM_object_id, cur.obj>> \in cur.emitted
             /\ <<cur.node, SSSOM_mapping_justification, SEMAPV_UnspecifiedMatching>>
                   \in cur.emitted
             /\ cs = {DoubleLiteral(e[2]) : e \in parsed}
             /\ Cardinality(cs) = IF parsed = {} THEN 0 ELSE 1
             /\ Count(all_mapping_nodes, cur.node) = 1 =>
                   OutObjects(g_out, cur.node, SSSOM_confidence) = cs
    /\ pc = "raised" => g_in = <<>>

C6_Witness ==
    /\ cur.complete
    /\ cur.measure = Literal(<<"a", "b", "c">>)
    /\ Count(all_mapping_nodes, cur.node) = 1
    /\ pc = "written"

\* C7: the iteration over a cell that lacks entity1 or entity2 changes
\* neither the output graph nor the list of mapping nodes and stays in the
\* loop; and when the loops end, every complete cell has its Mapping
\* (typed, with its subject_id and object_id).
C7_IncompleteCellDropped ==
    [][/\ (pc = "loop" /\ cellsTodo # {} /\ cellsTodo' # cellsTodo /\ ~cur'.complete) =>
             /\ g_out' = g_out
             /\ all_mapping_nodes' = all_mapping_nodes
             /\ pc' = "loop"
             /\ cur'.cell \in cellsTodo
             /\ \/ Objects(g_in, cur'.cell, preds["entity1"]) = {}
                \/ Objects(g_in, cur'.cell, preds["entity2"]) = {}
       /\ (pc = "loop" /\ cellsTodo # {} /\ cellsTodo' # cellsTodo /\ cur'.complete) =>
             /\ Objects(g_in, cur'.cell, preds["entity1"]) # {}
             /\ Objects(g_in, cur'.cell, preds["entity2"]) # {}
       /\ (pc = "loop" /\ pc' = "serialize") =>
             \A c \in CompleteCells :
                \E n \in MappingResources(g_out') :
                   /\ Value(g_in, c, preds["entity1"]) \in OutObjects(g_out', n, SSSOM_subject_id)
                   /\ Value(g_in, c, preds["entity2"]) \in OutObjects(g_out', n, SSSOM_object_id)
                   /\ <<mapping_set_iri(idx), SSSOM_mappings, n>> \in g_out'
      ]_vars

C7_Witness ==
    /\ pc = "written"
    /\ ~cur.complete
    /\ cur.cell # None
    /\ cur.cid_val # None
    /\ all_mapping_nodes # <<>>

\* C8: the output path of a file is written only by the last step of its
\* call, once, after discovery resolved every required role, at least one
\* Alignment was found and every Alignment and Cell has been visited; a
\* call that raised or skipped leaves it unwritten; nothing follows the
\* write but the return.
C8_WriteOnceAtEnd ==
    [][/\ fs' # fs =>
             /\ pc = "serialize" /\ pc' = "written"
             /\ fs[idx] = 0
             /\ fs' = [fs EXCEPT ![idx] = 1]
             /\ UnresolvedRequired = {}
             /\ alnDone # <<>>
             /\ Range(alnDone) = Subjects(g_in, RDF_type, preds["Alignment"])
             /\ alnTodo = {} /\ cellsTodo = {}
             /\ \A c \in ReachableCells : \E a \in Range(alnDone) : c \in Objects(g_in, a, preds["map"])
       /\ pc' \in {"raised", "skipped"} => fs'[idx'] = 0
       /\ pc = "written" => (pc' = "main" /\ fs' = fs /\ g_out' = g_out)
      ]_vars

C8_Witness ==
    /\ pc = "written"
    /\ fs[idx] = 1
    /\ Len(alnDone) >= 2
    /\ Len(all_mapping_nodes) >= 2

\* predicates of the graph whose local name ends with the role's suffix
PredCandidates(r) ==
    {t[2] : t \in {u \in GraphSet(g_in) : EndsWith(local_name(u[2]), Suffix(r))}}

\* IRI objects of rdf:type triples whose local name ends with the suffix
ClassCandidates(r) ==
    {t[3] : t \in {u \in GraphSet(g_in) : /\ u[2] = RDF_type
                                          /\ u[3].k = "U"
                                          /\ EndsWith(local_name(u[3]), Suffix(r))}}

\* C9: after discovery each role is None or an IRI; a predicate role is
\* resolved iff some predicate's local name ends with its suffix, and then
\* to one of those predicates; Alignment and Cell are resolved iff some
\* rdf:type triple has an IRI object whose local name ends with the suffix,
\* and then to one of those objects; no predicate serves two roles.
C9_Discovery ==
    pc = "discovered" =>
        /\ \A r \in PredRoles :
              /\ (preds[r] # None) <=> (PredCandidates(r) # {})
              /\ preds[r] # None => preds[r] \in PredCandidates(r)
        /\ \A r \in ClassRoles :
              /\ (preds[r] # None) <=> (ClassCandidates(r) # {})
              /\ preds[r] # None => preds[r] \in ClassCandidates(r)
        /\ \A r \in Roles : preds[r] = None \/ preds[r].k = "U"
        /\ \A r1, r2 \in PredRoles : (r1 # r2 /\ preds[r1] # None) => preds[r1] # preds[r2]

C9_Witness ==
    /\ pc = "discovered"
    /\ Cardinality(PredCandidates("relation")) = 2
    /\ preds["relation"] \in PredCandidates("relation")
    /\ preds["Alignment"] # None

\* C10 as written: at most one subject_source and one object_source, and
\* they are the onto1 and onto2 targets of the first Alignment processed.
C10_Original ==
    pc = "written" =>
        /\ Cardinality(OutObjects(g_out, mapping_set_iri(idx), SSSOM_subject_source)) <= 1
        /\ Cardinality(OutObjects(g_out, mapping_set_iri(idx), SSSOM_object_source)) <= 1
        /\ \A o \in OutObjects(g_out, mapping_set_iri(idx), SSSOM_subject_source) :
              o = Value(g_in, alnDone[1], preds["onto1"])
        /\ \A o \in OutObjects(g_out, mapping_set_iri(idx), SSSOM_object_source) :
              o = Value(g_in, alnDone[1], preds["onto2"])

\* the target the first processed Alignment with a non-empty target for
\* the role has, as a set (empty when no Alignment has one)
FirstSource(role) ==
    LET have == {i \in 1..Len(alnDone) : LET t == Value(g_in, alnDone[i], preds[role])
                                         IN t # None /\ t.s # <<>>}
    IN IF have = {} THEN {}
       ELSE {Value(g_in, alnDone[CHOOSE i \in have : \A j \in have : i <= j], preds[role])}

\* C10 amended: at most one subject_source and one object_source; each is
\* the target of the first processed Alignment that has a non-empty target
\* for that role (onto1, onto2 separately), and absent when none has one.
C10_Amended ==
    pc = "written" =>
        /\ OutObjects(g_out, mapping_set_iri(idx), SSSOM_subject_source) = FirstSource("onto1")
        /\ OutObjects(g_out, mapping_set_iri(idx), SSSOM_object_source) = FirstSource("onto2")
        /\ Cardinality(FirstSource("onto1")) <= 1
        /\ Cardinality(FirstSource("onto2")) <= 1

C10_Witness ==
    /\ pc = "written"
    /\ Len(alnDone) = 2
    /\ Truthy(Value(g_in, alnDone[1], preds["onto1"]))
    /\ Truthy(Value(g_in, alnDone[2], preds["onto1"]))
    /\ Value(g_in, alnDone[1], preds["onto1"]) # Value(g_in, alnDone[2], preds["onto1"])
    /\ OutObjects(g_out, mapping_set_iri(idx), SSSOM_subject_source)
          = {Value(g_in, alnDone[1], preds["onto1"])}
====
